---- MODULE Spec2Model ----
(***************************************************************************)
(* A model of the static-site build toolchain of bmadhusu/tools:          *)
(*   gather_links.py   -> gathered_links.json                              *)
(*   build_index.py    -> index.html                                       *)
(*   build_colophon.py -> colophon.html                                    *)
(* Python strings are TLA+ strings; TLC evaluates Len, \o and SubSeq on    *)
(* them, so the regular expressions and string methods of the scripts are  *)
(* modelled character by character.                                        *)
(***************************************************************************)
EXTENDS Integers, Sequences, FiniteSets, TLC

VARIABLES
    html_pages,      \* working directory: name of each *.html file present -> its text
    git_log,         \* name -> the commits `git log --follow -- name` lists, newest first
    gathered_links,  \* gathered_links.json: Absent, or [tools |-> the list it holds]
    index_html,      \* index.html as written by build_index: Absent, or the page
    colophon_html,   \* colophon.html as written by build_colophon: Absent, or the page
    last_run,        \* the script that ran last ("none" before any)
    stdout,          \* the lines the last script printed
    arg,             \* pure-function specifications: the argument of the call
    ret,             \* ... its return value
    pc               \* ... "call" before the function ran, "return" after

vars == <<html_pages, git_log, gathered_links, index_html, colophon_html,
          last_run, stdout, arg, ret, pc>>

pipeline_vars == <<html_pages, git_log, gathered_links, index_html, colophon_html,
                   last_run, stdout>>

call_vars == <<arg, ret, pc>>

\* a file that does not exist
Absent == [exists |-> FALSE]

None == "<None>"

-----------------------------------------------------------------------------
(* Strings *)

\* stands for the character "\x00", which a TLA+ string literal cannot hold
NUL == "@"

Char(s, i) == SubSeq(s, i, i)

\* the printable ASCII characters (and tab, LF, FF, CR; no backquote, which a TLA+
\* string literal cannot hold) in code-point order
Ascii == "\t\n\f\r !\"#$%&'()*+,-./0123456789:;<=>?" \o NUL \o
         "ABCDEFGHIJKLMNOPQRSTUVWXYZ[\\]^_abcdefghijklmnopqrstuvwxyz{|}~"

\* the position of each character in code-point order (a table: TLC evaluates a
\* constant once)
CodePoint ==
    [c \in {Char(Ascii, i) : i \in 1..Len(Ascii)} |->
        CHOOSE i \in 1..Len(Ascii) : Char(Ascii, i) = c]

\* ord(c), up to the order (NUL, the lowest, is 0)
Ord(c) == IF c = NUL THEN 0 ELSE CodePoint[c]

Min(S) == CHOOSE x \in S : \A y \in S : x <= y

RECURSIVE StrLessFrom(_, _, _)
StrLessFrom(a, b, i) ==
    IF i > Len(b) THEN FALSE
    ELSE IF i > Len(a) THEN TRUE
    ELSE IF Char(a, i) # Char(b, i) THEN Ord(Char(a, i)) < Ord(Char(b, i))
    ELSE StrLessFrom(a, b, i + 1)

\* Python's a < b on str: lexicographic by code point, a proper prefix being less
StrLess(a, b) == StrLessFrom(a, b, 1)

\* str.startswith(p, i-1)
StartsWithAt(s, i, p) ==
    /\ i + Len(p) - 1 <= Len(s)
    /\ SubSeq(s, i, i + Len(p) - 1) = p

\* p in s
Contains(s, p) == \E i \in 1..(Len(s) - Len(p) + 1) : StartsWithAt(s, i, p)

\* what Python's \s and str.strip() take for white space (ASCII part)
Whitespace == {" ", "\t", "\n", "\r", "\f"}

Digits == {"0", "1", "2", "3", "4", "5", "6", "7", "8", "9"}

RECURSIVE rstrip(_, _)
\* str.rstrip(chars)
rstrip(s, chars) ==
    IF Len(s) > 0 /\ Char(s, Len(s)) \in chars
    THEN rstrip(SubSeq(s, 1, Len(s) - 1), chars)
    ELSE s

RECURSIVE lstrip(_, _)
\* str.lstrip(chars)
lstrip(s, chars) ==
    IF Len(s) > 0 /\ Char(s, 1) \in chars
    THEN lstrip(SubSeq(s, 2, Len(s)), chars)
    ELSE s

strip(s) == rstrip(lstrip(s, Whitespace), Whitespace)

RECURSIVE FindIn(_, _, _, _)
\* the first position in lo..hi where sep starts in s, 0 when there is none (the
\* left half is searched first, the right half only when it holds none)
FindIn(s, sep, lo, hi) ==
    IF lo > hi THEN 0
    ELSE IF lo = hi THEN (IF StartsWithAt(s, lo, sep) THEN lo ELSE 0)
    ELSE LET mid  == (lo + hi) \div 2
             left == FindIn(s, sep, lo, mid)
         IN  IF left # 0 THEN left ELSE FindIn(s, sep, mid + 1, hi)

\* the first position from i on where sep starts in s, 0 when there is none
FindFrom(s, sep, i) == FindIn(s, sep, i, Len(s) - Len(sep) + 1)

\* s[:n]
Prefix(s, n) == IF n < Len(s) THEN SubSeq(s, 1, n) ELSE s

\* str.find(sep) + 1: the position of the first sep in s, 0 when there is none
Find(s, sep) == FindFrom(s, sep, 1)

RECURSIVE split(_, _, _)
\* str.split(sep, maxsplit) for a one-character sep; maxsplit = -1 splits everywhere
split(s, sep, maxsplit) ==
    LET i == Find(s, sep)
    IN  IF maxsplit = 0 \/ i = 0 THEN <<s>>
        ELSE <<SubSeq(s, 1, i - 1)>> \o split(SubSeq(s, i + 1, Len(s)), sep, maxsplit - 1)

RECURSIVE RunEnd(_, _, _)
\* the last position of the longest run of characters outside excl that starts at i
\* (i - 1 when the run is empty): the greedy match of [^excl]* at i
RunEnd(s, i, excl) ==
    IF i <= Len(s) /\ Char(s, i) \notin excl THEN RunEnd(s, i + 1, excl) ELSE i - 1

RECURSIVE SpaceEnd(_, _)
\* the greedy match of \s* at i
SpaceEnd(s, i) ==
    IF i <= Len(s) /\ Char(s, i) \in Whitespace THEN SpaceEnd(s, i + 1) ELSE i - 1

RECURSIVE DigitsEnd(_, _)
\* the greedy match of \d* at i
DigitsEnd(s, i) ==
    IF i <= Len(s) /\ Char(s, i) \in Digits THEN DigitsEnd(s, i + 1) ELSE i - 1

\* the match of https?://[^excl]+ at position i: its last position, 0 for no match
UrlMatchEnd(s, i, excl) ==
    LET p == IF Char(s, i) # "h" THEN 0
             ELSE IF StartsWithAt(s, i, "https://") THEN i + 8
             ELSE IF StartsWithAt(s, i, "http://") THEN i + 7
             ELSE 0
        e == RunEnd(s, p, excl)
    IN  IF p = 0 \/ e < p THEN 0 ELSE e

RECURSIVE NextUrl(_, _, _)
\* where the leftmost match of https?://[^excl]+ from position i on starts, 0 when
\* there is none
NextUrl(s, i, excl) ==
    LET h == FindFrom(s, "http", i)
    IN  IF h = 0 THEN 0
        ELSE IF UrlMatchEnd(s, h, excl) > 0 THEN h
        ELSE NextUrl(s, h + 1, excl)

RECURSIVE FindAllUrls(_, _, _)
\* re.findall(https?://[^excl]+, s) from position i on: leftmost, non-overlapping
FindAllUrls(s, i, excl) ==
    LET b == NextUrl(s, i, excl)
        e == UrlMatchEnd(s, b, excl)
    IN  IF b = 0 THEN <<>>
        ELSE <<SubSeq(s, b, e)>> \o FindAllUrls(s, e + 1, excl)

-----------------------------------------------------------------------------
(* gather_links.py *)

RECURSIVE GitLogEntries(_, _, _)
GitLogEntries(commits, terminator, k) ==
    IF k > Len(commits) THEN ""
    ELSE commits[k].hash \o "|" \o commits[k].date \o "|" \o commits[k].message \o
         NUL \o terminator \o GitLogEntries(commits, terminator, k + 1)

\* subprocess.run(["git", "log", "--format=%H|%aI|%B%x00", ...]).stdout for a list
\* of commits: hash|date|message and a NUL for each, followed by terminator (git
\* ends each entry of a --format log with a line feed)
GitLogOutput(commits, terminator) == GitLogEntries(commits, terminator, 1)

\* entry.split("|") with no maxsplit: a message is cut at its first '|'
SplitEverywhere(entry) == split(entry, "|", -1)

\* entry.split("|", 2)
SplitEntry(entry) == split(entry, "|", 2)

RECURSIVE ParseEntries(_)
\* the loop over result.stdout.split("\x00")
ParseEntries(entries) ==
    IF entries = <<>> THEN <<>>
    ELSE LET entry == strip(Head(entries))
             parts == SplitEntry(entry)
         IN  IF entry = "" THEN ParseEntries(Tail(entries))
             ELSE IF Len(parts) >= 3
                  THEN <<[hash |-> parts[1], date |-> parts[2],
                          message |-> strip(parts[3])]>> \o ParseEntries(Tail(entries))
                  ELSE ParseEntries(Tail(entries))

\* get_file_commit_details, from the text git printed
get_file_commit_details(out) == ParseEntries(split(out, NUL, -1))

UrlExcluded == Whitespace \cup {"<", ">", "\"", "'", ")", "(", "]", "[", "}", "{", NUL}

TrailingPunctuation == {".", ",", ";", ":", "!", "?"}

\* the url as matched: trailing punctuation kept
KeepPunctuation(url) == url

\* url.rstrip('.,;:!?')
CleanUrl(url) == rstrip(url, TrailingPunctuation)

RECURSIVE CleanAll(_)
\* the loop over urls
CleanAll(urls) ==
    IF urls = <<>> THEN <<>>
    ELSE <<CleanUrl(Head(urls))>> \o CleanAll(Tail(urls))

extract_urls(text) == CleanAll(FindAllUrls(text, 1, UrlExcluded))

Lowercase == "abcdefghijklmnopqrstuvwxyz"

Uppercase == "ABCDEFGHIJKLMNOPQRSTUVWXYZ"

\* each upper-case letter's lower-case letter, and the reverse (tables)
ToLower == [c \in {Char(Uppercase, i) : i \in 1..26} |-> Char(Lowercase, Find(Uppercase, c))]

ToUpper == [c \in {Char(Lowercase, i) : i \in 1..26} |-> Char(Uppercase, Find(Lowercase, c))]

IsLetter(c) == c \in DOMAIN ToLower \/ c \in DOMAIN ToUpper

\* str.lower() and str.upper() of one character
LowerChar(c) == IF c \in DOMAIN ToLower THEN ToLower[c] ELSE c

UpperChar(c) == IF c \in DOMAIN ToUpper THEN ToUpper[c] ELSE c

RECURSIVE lower(_)
lower(s) == IF s = "" THEN "" ELSE LowerChar(Char(s, 1)) \o lower(SubSeq(s, 2, Len(s)))

RECURSIVE replace(_, _, _)
\* str.replace(old, new) for a one-character old
replace(s, old, new) ==
    LET i == Find(s, old)
    IN  IF i = 0 THEN s
        ELSE SubSeq(s, 1, i - 1) \o new \o replace(SubSeq(s, i + 1, Len(s)), old, new)

RECURSIVE TitleFrom(_, _)
TitleFrom(s, i) ==
    IF i > Len(s) THEN ""
    ELSE (IF i > 1 /\ IsLetter(Char(s, i - 1)) THEN LowerChar(Char(s, i))
          ELSE UpperChar(Char(s, i))) \o TitleFrom(s, i + 1)

\* str.title(): a letter is upper case after a non-letter, lower case after a letter
title(s) == TitleFrom(s, 1)

\* Path(name).stem of a name with one suffix
stem(name) ==
    IF Len(name) > 5 /\ StartsWithAt(name, Len(name) - 4, ".html")
    THEN SubSeq(name, 1, Len(name) - 5)
    ELSE name

\* the match of <title>([^<]+)</title> at i, ignoring case: group 1, None for no match
TitleMatchAt(content, i) ==
    LET e == RunEnd(content, i + 7, {"<"})
    IN  IF /\ i + 6 <= Len(content)
           /\ Char(content, i) = "<"
           /\ lower(SubSeq(content, i, i + 6)) = "<title>"
           /\ e >= i + 7
           /\ e + 8 <= Len(content)
           /\ lower(SubSeq(content, e + 1, e + 8)) = "</title>"
        THEN SubSeq(content, i + 7, e)
        ELSE None

RECURSIVE SearchTitle(_, _)
\* re.search(r'<title>([^<]+)</title>', content, re.IGNORECASE) from position i on:
\* group 1 of the leftmost match, None when there is none
SearchTitle(content, i) ==
    LET b == FindFrom(content, "<", i)
    IN  IF b = 0 THEN None
        ELSE IF TitleMatchAt(content, b) # None THEN TitleMatchAt(content, b)
        ELSE SearchTitle(content, b + 1)

extract_title(name, content) ==
    LET match == SearchTitle(content, 1)
    IN  IF match # None THEN strip(match)
        ELSE title(replace(replace(stem(name), "-", " "), "_", " "))

Quotes == {"\"", "'"}

\* the match of <meta\s+name=["']description["']\s+content=["']([^"']+)["'] at i,
\* ignoring case: group 1, None for no match
MetaMatchAt(content, i) ==
    LET n  == Len(content)
        w1 == SpaceEnd(content, i + 5)
        q1 == w1 + 6
        q2 == q1 + 12
        w2 == SpaceEnd(content, q2 + 1)
        q3 == w2 + 9
        e  == RunEnd(content, q3 + 1, Quotes)
    IN  IF /\ i + 4 <= n /\ Char(content, i) = "<"
           /\ lower(SubSeq(content, i, i + 4)) = "<meta"
           /\ w1 >= i + 5
           /\ q1 <= n /\ lower(SubSeq(content, w1 + 1, w1 + 5)) = "name="
           /\ Char(content, q1) \in Quotes
           /\ q2 <= n /\ lower(SubSeq(content, q1 + 1, q1 + 11)) = "description"
           /\ Char(content, q2) \in Quotes
           /\ w2 >= q2 + 1
           /\ q3 <= n /\ lower(SubSeq(content, w2 + 1, w2 + 8)) = "content="
           /\ Char(content, q3) \in Quotes
           /\ e >= q3 + 1
           /\ e + 1 <= n /\ Char(content, e + 1) \in Quotes
        THEN SubSeq(content, q3 + 1, e)
        ELSE None

RECURSIVE SearchMeta(_, _)
\* re.search of the meta pattern from position i on: group 1 of the leftmost match
SearchMeta(content, i) ==
    LET b == FindFrom(content, "<", i)
    IN  IF b = 0 THEN None
        ELSE IF MetaMatchAt(content, b) # None THEN MetaMatchAt(content, b)
        ELSE SearchMeta(content, b + 1)

\* the match of <p[^>]*>([^<]+)</p> at i, ignoring case: group 1, None for no match
ParagraphMatchAt(content, i) ==
    LET g == RunEnd(content, i + 2, {">"}) + 1
        e == RunEnd(content, g + 1, {"<"})
    IN  IF /\ i + 1 <= Len(content)
           /\ Char(content, i) = "<"
           /\ lower(SubSeq(content, i, i + 1)) = "<p"
           /\ g <= Len(content)
           /\ e >= g + 1
           /\ e + 4 <= Len(content)
           /\ lower(SubSeq(content, e + 1, e + 4)) = "</p>"
        THEN SubSeq(content, g + 1, e)
        ELSE None

RECURSIVE SearchParagraph(_, _)
\* re.search(r'<p[^>]*>([^<]+)</p>', content, re.IGNORECASE) from position i on:
\* group 1 of the leftmost match
SearchParagraph(content, i) ==
    LET b == FindFrom(content, "<", i)
    IN  IF b = 0 THEN None
        ELSE IF ParagraphMatchAt(content, b) # None THEN ParagraphMatchAt(content, b)
        ELSE SearchParagraph(content, b + 1)

DescriptionLimit == 200

extract_description(content) ==
    LET meta == SearchMeta(content, 1)
        para == SearchParagraph(content, 1)
    IN  IF meta # None THEN strip(meta)
        ELSE IF para # None THEN Prefix(strip(para), DescriptionLimit)
        ELSE ""

GeneratedFiles == {"index.html", "colophon.html", "by-month.html"}

\* a skip list that names index.html only
IsIndexOnly(name) == name = "index.html"

\* html_path.name in ('index.html', 'colophon.html', 'by-month.html')
IsGenerated(name) == name \in GeneratedFiles

RECURSIVE sorted(_)
\* sorted(names): ascending by code point
sorted(names) ==
    IF names = {} THEN <<>>
    ELSE LET least == CHOOSE a \in names : \A b \in names \ {a} : StrLess(a, b)
         IN  <<least>> \o sorted(names \ {least})

RECURSIVE all_urls(_)
\* all_urls after the loop over commits: extract_urls of each message, concatenated
all_urls(commits) ==
    IF commits = <<>> THEN <<>>
    ELSE extract_urls(Head(commits).message) \o all_urls(Tail(commits))

\* commits[0]['date']: the newest commit's date taken for the creation date
created_newest(commits) == IF commits # <<>> THEN commits[1].date ELSE None

\* commits[-1]['date'] if commits else None
created(commits) == IF commits # <<>> THEN commits[Len(commits)].date ELSE None

\* commits[0]['date'] if commits else None
updated(commits) == IF commits # <<>> THEN commits[1].date ELSE None

\* set(all_urls)
Deduplicate(urls) == {urls[k] : k \in DOMAIN urls}

\* list(a_set): the elements in an order the set's hashing decides (str hashes are
\* salted per process), so any order
ListsOf(a_set) ==
    {l \in [1..Cardinality(a_set) -> a_set] : \A i, j \in DOMAIN l : l[i] = l[j] => i = j}

\* list(urls): no deduplication
list_of_all(urls) == {urls}

\* list(set(all_urls)): every list main can get
list_of_set(urls) == ListsOf(Deduplicate(urls))

\* the dict main appends for one file, before its urls are deduplicated
ToolRecord(name, content, commits) ==
    [file        |-> name,
     slug        |-> stem(name),
     title       |-> extract_title(name, content),
     description |-> extract_description(content),
     commits     |-> commits,
     urls        |-> all_urls(commits),
     created     |-> created(commits),
     updated     |-> updated(commits)]

RECURSIVE GatherLoopReturning(_, _, _)
\* the loop with a return in place of the second continue: a file with no commits
\* ends it
GatherLoopReturning(html_files, pages, log) ==
    IF html_files = <<>> THEN <<>>
    ELSE LET name    == Head(html_files)
             rest    == GatherLoopReturning(Tail(html_files), pages, log)
             commits == get_file_commit_details(GitLogOutput(log[name], "\n"))
         IN  IF IsGenerated(name) THEN rest
             ELSE IF commits = <<>> THEN <<>>
             ELSE <<ToolRecord(name, pages[name], commits)>> \o rest

RECURSIVE GatherLoop(_, _, _)
\* the loop of main over html_files: the tools list it leaves
GatherLoop(html_files, pages, log) ==
    IF html_files = <<>> THEN <<>>
    ELSE LET name    == Head(html_files)
             rest    == GatherLoop(Tail(html_files), pages, log)
             commits == get_file_commit_details(GitLogOutput(log[name], "\n"))
         IN  IF IsGenerated(name) THEN rest
             ELSE IF commits = <<>> THEN rest
             ELSE <<ToolRecord(name, pages[name], commits)>> \o rest

\* x['updated'] or ''
SortKey(tool) == IF tool.updated = None \/ tool.updated = "" THEN "" ELSE tool.updated

\* where list.sort(reverse=True) puts tool among the already sorted: after every
\* element whose key is not less than its own (the sort is stable)
InsertSorted(done, tool) ==
    LET k == Cardinality({i \in DOMAIN done : ~StrLess(SortKey(done[i]), SortKey(tool))})
    IN  SubSeq(done, 1, k) \o <<tool>> \o SubSeq(done, k + 1, Len(done))

RECURSIVE SortFrom(_, _)
SortFrom(done, todo) ==
    IF todo = <<>> THEN done ELSE SortFrom(InsertSorted(done, Head(todo)), Tail(todo))

\* tools.sort(key=lambda x: x['updated'] or '', reverse=True)
sort_by_updated(tools) == SortFrom(<<>>, tools)

RECURSIVE WithUrlLists(_)
\* the lists of records main can hold: each record's urls deduplicated
WithUrlLists(tools) ==
    IF tools = <<>> THEN {<<>>}
    ELSE {<<[Head(tools) EXCEPT !.urls = l]>> \o rest :
            l \in list_of_set(Head(tools).urls), rest \in WithUrlLists(Tail(tools))}

\* the lists main can write to gathered_links.json for a working directory
main(html_files, pages, log) ==
    {sort_by_updated(tools) : tools \in WithUrlLists(GatherLoop(html_files, pages, log))}

RECURSIVE ToolLines(_)
ToolLines(tools) ==
    IF tools = <<>> THEN <<>>
    ELSE <<"  - " \o Head(tools).title \o " (" \o ToString(Len(Head(tools).commits)) \o
           " commits)">> \o ToolLines(Tail(tools))

\* what main prints
GatherPrinted(tools) ==
    <<"Gathered data for " \o ToString(Len(tools)) \o " tool(s)">> \o ToolLines(tools)

-----------------------------------------------------------------------------
(* build_index.py and build_colophon.py *)

GITHUB_REPO == "bmadhusu/tools"

\* html.escape(s): & first, then < > " '
escape(s) ==
    replace(replace(replace(replace(replace(s, "&", "&amp;"), "<", "&lt;"),
                            ">", "&gt;"), "\"", "&quot;"), "'", "&#x27;")

RECURSIVE ToInt(_)
\* int(s) of a string of digits
ToInt(s) ==
    IF s = "" THEN 0
    ELSE 10 * ToInt(SubSeq(s, 1, Len(s) - 1)) + (Ord(Char(s, Len(s))) - Ord("0"))

AllDigits(s) == \A i \in 1..Len(s) : Char(s, i) \in Digits

MonthNames == <<"January", "February", "March", "April", "May", "June", "July",
                "August", "September", "October", "November", "December">>

\* datetime.fromisoformat accepts s, for the one form git's %aI prints,
\* YYYY-MM-DDTHH:MM:SS+HH:MM (a 'Z' ending is first replaced by '+00:00')
IsoParses(s) ==
    /\ Len(s) = 25
    /\ AllDigits(SubSeq(s, 1, 4)) /\ AllDigits(SubSeq(s, 6, 7))
    /\ AllDigits(SubSeq(s, 9, 10)) /\ AllDigits(SubSeq(s, 12, 13))
    /\ AllDigits(SubSeq(s, 15, 16)) /\ AllDigits(SubSeq(s, 18, 19))
    /\ AllDigits(SubSeq(s, 21, 22)) /\ AllDigits(SubSeq(s, 24, 25))
    /\ Char(s, 5) = "-" /\ Char(s, 8) = "-" /\ Char(s, 11) = "T"
    /\ Char(s, 14) = ":" /\ Char(s, 17) = ":" /\ Char(s, 20) \in {"+", "-"}
    /\ Char(s, 23) = ":"
    /\ ToInt(SubSeq(s, 1, 4)) >= 1
    /\ ToInt(SubSeq(s, 6, 7)) \in 1..12
    /\ ToInt(SubSeq(s, 9, 10)) \in 1..31
    /\ ToInt(SubSeq(s, 12, 13)) < 24 /\ ToInt(SubSeq(s, 15, 16)) < 60
    /\ ToInt(SubSeq(s, 18, 19)) < 60
    /\ ToInt(SubSeq(s, 21, 22)) < 24 /\ ToInt(SubSeq(s, 24, 25)) < 60

\* format_date of build_index.py (month_letters = 3, '%b %d, %Y') and of
\* build_colophon.py (month_letters = 9, '%B %d, %Y'): the date as written, in its
\* own offset
format_date(iso_date, month_letters) ==
    LET s == IF iso_date # "" /\ Char(iso_date, Len(iso_date)) = "Z"
             THEN SubSeq(iso_date, 1, Len(iso_date) - 1) \o "+00:00"
             ELSE iso_date
    IN  IF IsoParses(s)
        THEN Prefix(MonthNames[ToInt(SubSeq(s, 6, 7))], month_letters) \o " " \o
             SubSeq(s, 9, 10) \o ", " \o SubSeq(s, 1, 4)
        ELSE iso_date

\* 's' if n > 1 else ''
plural_above_one(n) == IF n > 1 THEN "s" ELSE ""

\* 's' if n != 1 else ''
plural(n) == IF n # 1 THEN "s" ELSE ""

\* one <article class="tool-card">: the values of the template's holes
ToolCard(tool) ==
    [href        |-> tool.slug \o ".html",
     title       |-> escape(tool.title),
     description |-> IF tool.description # "" THEN escape(tool.description)
                     ELSE "A useful tool.",
     updated     |-> IF tool.updated # None /\ tool.updated # ""
                     THEN format_date(tool.updated, 3) ELSE "",
     history     |-> "colophon.html#" \o tool.slug]

\* html_content of build_index: the values of the template's holes (the header's
\* count and noun, the cards in the order joined); the fixed text is left out
IndexPage(tools) ==
    [count |-> ToString(Len(tools)),
     noun  |-> "tool" \o plural(Len(tools)),
     cards |-> [i \in 1..Len(tools) |-> ToolCard(tools[i])]]

AnchorExcluded == Whitespace \cup {"<", ">", "&"}

RECURSIVE LinkifyUrls(_, _)
\* re.sub(r'(https?://[^\s<>&]+)', r'<a href="\1" target="_blank" rel="noopener">\1</a>', s)
LinkifyUrls(s, i) ==
    LET b == NextUrl(s, i, AnchorExcluded)
        e == UrlMatchEnd(s, b, AnchorExcluded)
    IN  IF b = 0 THEN SubSeq(s, i, Len(s))
        ELSE SubSeq(s, i, b - 1) \o
             "<a href=\"" \o SubSeq(s, b, e) \o "\" target=\"_blank\" rel=\"noopener\">" \o
             SubSeq(s, b, e) \o "</a>" \o LinkifyUrls(s, e + 1)

RECURSIVE NextIssue(_, _)
\* where the leftmost match of #\d+ from position i on starts, 0 when there is none
NextIssue(s, i) ==
    LET h == FindFrom(s, "#", i)
    IN  IF h = 0 THEN 0
        ELSE IF DigitsEnd(s, h + 1) > h THEN h
        ELSE NextIssue(s, h + 1)

RECURSIVE LinkifyIssues(_, _)
\* re.sub(r'#(\d+)', rf'<a href="https://github.com/{GITHUB_REPO}/issues/\1">#\1</a>', s)
LinkifyIssues(s, i) ==
    LET b == NextIssue(s, i)
        e == DigitsEnd(s, b + 1)
    IN  IF b = 0 THEN SubSeq(s, i, Len(s))
        ELSE SubSeq(s, i, b - 1) \o
             "<a href=\"https://github.com/" \o GITHUB_REPO \o "/issues/" \o
             SubSeq(s, b + 1, e) \o "\">#" \o SubSeq(s, b + 1, e) \o "</a>" \o
             LinkifyIssues(s, e + 1)

format_commit_message(message) ==
    replace(LinkifyIssues(LinkifyUrls(escape(message), 1), 1), "\n", "<br>\n")

\* one <div class="commit">
CommitBlock(commit) ==
    [commit_url |-> "https://github.com/" \o GITHUB_REPO \o "/commit/" \o commit.hash,
     short_hash |-> Prefix(commit.hash, 7),
     date       |-> format_date(commit.date, 9),
     message    |-> format_commit_message(commit.message)]

\* one <section class="tool">
ToolSection(tool) ==
    [id          |-> tool.slug,
     href        |-> tool.slug \o ".html",
     title       |-> escape(tool.title),
     description |-> IF tool.description # "" THEN escape(tool.description) ELSE "",
     tool_url    |-> "https://github.com/" \o GITHUB_REPO \o "/blob/main/" \o tool.file,
     count       |-> ToString(Len(tool.commits)),
     noun        |-> "commit" \o plural(Len(tool.commits)),
     commits     |-> [k \in 1..Len(tool.commits) |-> CommitBlock(tool.commits[k])]]

\* html_content of build_colophon, as IndexPage
ColophonPage(tools) ==
    [count    |-> ToString(Len(tools)),
     noun     |-> "tool" \o plural(Len(tools)),
     sections |-> [i \in 1..Len(tools) |-> ToolSection(tools[i])]]

NotFoundMessage == "Error: gathered_links.json not found. Run gather_links.py first."

\* the text of index.html that a later scan of the directory reads: its <title> and
\* header paragraph
IndexText(page) ==
    "<title>Tools</title><p>A collection of " \o page.count \o " useful " \o page.noun \o
    " built with AI assistance.</p>"

\* the same of colophon.html
ColophonText(page) ==
    "<title>Colophon - Tools</title><p>Development history and AI session transcripts for "
    \o page.count \o " " \o page.noun \o ".</p>"

-----------------------------------------------------------------------------
(* The working directory and the repository the scripts run in *)

\* the longest commit history of a file
MaxCommits == 2

ToolFiles == {"a-tool.html", "b_tool.html"}

AllFiles == ToolFiles \cup GeneratedFiles

\* the text of the hand-written pages
PageText(name) ==
    CASE name = "a-tool.html" ->
           "<html><title>A & B</title><meta name=\"description\" content=\"Joins A & B.\">"
      [] name = "b_tool.html" -> "<h1>b</h1><p class=\"lead\"> Second tool. </p>"
      [] OTHER -> "<TITLE>By month</TITLE>"

\* the commits of the repository, as git holds them: %H, %aI and %B
CommitA ==
    [hash    |-> "1f3a9c0e5b7d2a4c6e8f0a1b3c5d7e9f1a2b3c4d",
     date    |-> "2024-03-01T10:00:00+05:00",
     message |-> "Add tool\n\nSee https://a.io/x.\n"]

CommitB ==
    [hash    |-> "2b4c6d8e0f1a3b5c7d9e1f2a4b6c8d0e2f3a5b7c",
     date    |-> "2024-03-01T08:00:00+00:00",
     message |-> "Fix #12 (https://a.io/x, https://b.io/?q=1&r=2)\n"]

CommitC ==
    [hash    |-> "3c5d7e9f1a2b4c6d8e0f2a3b5c7d9e1f3a4b6c8d",
     date    |-> "2024-03-01T08:00:00+00:00",
     message |-> "Tidy | rename\n"]

CommitPool == {CommitA, CommitB, CommitC}

\* what git log can list for one file: distinct commits, at most MaxCommits
Histories ==
    UNION {{h \in [1..n -> CommitPool] : \A i, j \in 1..n : h[i] = h[j] => i = j} :
             n \in 0..MaxCommits}

\* Path('.').glob('*.html')
HtmlFiles ==
    DOMAIN html_pages
      \cup (IF index_html # Absent THEN {"index.html"} ELSE {})
      \cup (IF colophon_html # Absent THEN {"colophon.html"} ELSE {})

\* open(name).read()
Content(name) ==
    IF name = "index.html" THEN IndexText(index_html)
    ELSE IF name = "colophon.html" THEN ColophonText(colophon_html)
    ELSE html_pages[name]

Init ==
    /\ \E present \in {ToolFiles, ToolFiles \cup {"by-month.html"}} :
          /\ html_pages = [name \in present |-> PageText(name)]
          /\ \E tracked \in [ToolFiles -> Histories] :
                git_log = [name \in AllFiles |->
                             IF name \in ToolFiles THEN tracked[name]
                             ELSE IF name \in present THEN <<CommitC>>
                             ELSE <<>>]
    /\ gathered_links = Absent
    /\ index_html = Absent
    /\ colophon_html = Absent
    /\ last_run = "none"
    /\ stdout = <<>>
    /\ arg = None /\ ret = None /\ pc = "none"

\* python gather_links.py
gather_links ==
    /\ pc = "none"
    /\ \E tools \in main(sorted(HtmlFiles), [name \in HtmlFiles |-> Content(name)], git_log) :
          /\ gathered_links' = [exists |-> TRUE, tools |-> tools]
          /\ stdout' = GatherPrinted(tools)
    /\ last_run' = "gather_links"
    /\ UNCHANGED <<html_pages, git_log, index_html, colophon_html, call_vars>>

\* build_index with the except branch writing an empty page instead of returning
build_index_empty_page ==
    /\ pc = "none"
    /\ index_html' = IndexPage(IF gathered_links = Absent THEN <<>> ELSE gathered_links.tools)
    /\ stdout' = IF gathered_links = Absent THEN <<NotFoundMessage>>
                 ELSE <<"Built index.html with " \o ToString(Len(gathered_links.tools)) \o
                        " tool(s)">>
    /\ last_run' = "build_index"
    /\ UNCHANGED <<html_pages, git_log, gathered_links, colophon_html, call_vars>>

\* python build_index.py
build_index ==
    /\ pc = "none"
    /\ IF gathered_links = Absent
       THEN /\ stdout' = <<NotFoundMessage>>
            /\ UNCHANGED index_html
       ELSE /\ index_html' = IndexPage(gathered_links.tools)
            /\ stdout' = <<"Built index.html with " \o ToString(Len(gathered_links.tools)) \o
                           " tool(s)">>
    /\ last_run' = "build_index"
    /\ UNCHANGED <<html_pages, git_log, gathered_links, colophon_html, call_vars>>

\* python build_colophon.py
build_colophon ==
    /\ pc = "none"
    /\ IF gathered_links = Absent
       THEN /\ stdout' = <<NotFoundMessage>>
            /\ UNCHANGED colophon_html
       ELSE /\ colophon_html' = ColophonPage(gathered_links.tools)
            /\ stdout' = <<"Built colophon.html with " \o
                           ToString(Len(gathered_links.tools)) \o
                           " tool(s)">>
    /\ last_run' = "build_colophon"
    /\ UNCHANGED <<html_pages, git_log, gathered_links, index_html, call_vars>>

\* the user commits the pages the builders wrote (git add index.html colophon.html;
\* git commit): from then on git log lists a commit for each
git_commit_pages ==
    /\ pc = "none"
    /\ {"index.html", "colophon.html"} \subseteq HtmlFiles
    /\ git_log["index.html"] = <<>>
    /\ git_log' = [git_log EXCEPT !["index.html"] = <<CommitC>>,
                                  !["colophon.html"] = <<CommitC>>]
    /\ UNCHANGED <<html_pages, gathered_links, index_html, colophon_html, last_run,
                   stdout, call_vars>>

\* gathered_links.json, an untracked intermediate file, is removed
remove_gathered_links ==
    /\ pc = "none"
    /\ gathered_links # Absent
    /\ gathered_links' = Absent
    /\ UNCHANGED <<html_pages, git_log, index_html, colophon_html, last_run, stdout,
                   call_vars>>

Next ==
    \/ gather_links
    \/ build_index
    \/ build_colophon
    \/ git_commit_pages
    \/ remove_gathered_links

Spec == Init /\ [][Next]_vars

-----------------------------------------------------------------------------
(* The pure functions, each called on bounded inputs *)

\* the most pieces a text is put together from
MaxPieces == 3

\* the most commits of a commit log
MaxLogCommits == 2

RECURSIVE Texts(_, _)
\* the texts put together from at most n of the pieces
Texts(pieces, n) ==
    IF n = 0 THEN {""}
    ELSE LET shorter == Texts(pieces, n - 1)
         IN  shorter \cup {t \o piece : t \in shorter, piece \in pieces}

UrlPieces ==
    {"http://a.io", "https://b.io/x", "http://", "https:/", ". ", ",;:!?", " ", ")",
     "\"", "x?q=1"}

MessagePieces ==
    {"https://a.io/x", "http://b.io", "?q=1", "&r=2", "#12", " ", "see ", ".", "\n", "<b>"}

LogMessages == {"", "Add tool\n", " a | b|c \n\n", "|", "x\n\ny"}

LogCommits ==
    [hash    : {"1f3a9c0e5b7d2a4c6e8f0a1b3c5d7e9f1a2b3c4d",
                "2b4c6d8e0f1a3b5c7d9e1f2a4b6c8d0e2f3a5b7c"},
     date    : {"2024-03-01T10:00:00+05:00", "2023-12-31T23:59:59-08:00"},
     message : LogMessages]

Idle ==
    /\ html_pages = <<>> /\ git_log = <<>>
    /\ gathered_links = Absent /\ index_html = Absent /\ colophon_html = Absent
    /\ last_run = "none" /\ stdout = <<>>

InitUrls == Idle /\ arg \in Texts(UrlPieces, MaxPieces) /\ ret = None /\ pc = "call"

call_extract_urls ==
    /\ pc = "call"
    /\ ret' = extract_urls(arg)
    /\ pc' = "return"
    /\ UNCHANGED <<arg, pipeline_vars>>

SpecUrls == InitUrls /\ [][call_extract_urls]_vars

InitFormat == Idle /\ arg \in Texts(MessagePieces, MaxPieces) /\ ret = None /\ pc = "call"

call_format_commit_message ==
    /\ pc = "call"
    /\ ret' = format_commit_message(arg)
    /\ pc' = "return"
    /\ UNCHANGED <<arg, pipeline_vars>>

SpecFormat == InitFormat /\ [][call_format_commit_message]_vars

InitLog ==
    /\ Idle
    /\ \E n \in 0..MaxLogCommits : \E commits \in [1..n -> LogCommits] :
          \E terminator \in {"", "\n"} :
             arg = [commits |-> commits, terminator |-> terminator]
    /\ ret = None
    /\ pc = "call"

call_get_file_commit_details ==
    /\ pc = "call"
    /\ ret' = get_file_commit_details(GitLogOutput(arg.commits, arg.terminator))
    /\ pc' = "return"
    /\ UNCHANGED <<arg, pipeline_vars>>

SpecLog == InitLog /\ [][call_get_file_commit_details]_vars

-----------------------------------------------------------------------------
(* Properties *)

Range(seq) == {seq[i] : i \in DOMAIN seq}

NoDuplicate(seq) == \A i, j \in DOMAIN seq : seq[i] = seq[j] => i = j

\* the records of gathered_links.json
Tools == gathered_links.tools

\* the files the records of gathered_links.json are about
RecordFiles == {Tools[i].file : i \in DOMAIN Tools}

\* the hand-written pages of the working directory that git log lists no commit for
NoHistory ==
    {name \in HtmlFiles \ GeneratedFiles :
        get_file_commit_details(GitLogOutput(git_log[name], "\n")) = <<>>}

\* gather_links.py ran last and its output file is still there
Gathered == last_run = "gather_links" /\ gathered_links # Absent

\* days from 1970-01-01 to the civil date y-m-d (proleptic Gregorian calendar)
DaysFromCivil(y, m, d) ==
    LET yy  == IF m <= 2 THEN y - 1 ELSE y
        era == yy \div 400
        yoe == yy - era * 400
        doy == (153 * ((m + 9) % 12) + 2) \div 5 + d - 1
        doe == yoe * 365 + yoe \div 4 - yoe \div 100 + doy
    IN  era * 146097 + doe - 719468

\* the instant an ISO timestamp YYYY-MM-DDTHH:MM:SS+HH:MM denotes, in seconds since
\* 1970-01-01T00:00:00Z
Instant(iso) ==
    LET local  == DaysFromCivil(ToInt(SubSeq(iso, 1, 4)), ToInt(SubSeq(iso, 6, 7)),
                                ToInt(SubSeq(iso, 9, 10))) * 86400
                  + ToInt(SubSeq(iso, 12, 13)) * 3600 + ToInt(SubSeq(iso, 15, 16)) * 60
                  + ToInt(SubSeq(iso, 18, 19))
        offset == ToInt(SubSeq(iso, 21, 22)) * 3600 + ToInt(SubSeq(iso, 24, 25)) * 60
    IN  IF Char(iso, 20) = "-" THEN local + offset ELSE local - offset

(* C1: when gathered_links.json does not exist, a run of build_index or of
   build_colophon prints the error message and returns: it creates no page and
   leaves an index.html or colophon.html of an earlier run as it was. *)
C1_MissingFileLeavesPages ==
    [][(gathered_links = Absent /\ (build_index \/ build_colophon))
         => /\ stdout' = <<NotFoundMessage>>
            /\ index_html' = index_html
            /\ colophon_html' = colophon_html]_vars

\* build_index has just reported the missing file, with the index.html of an
\* earlier run still in place
C1_Witness ==
    /\ gathered_links = Absent
    /\ last_run = "build_index"
    /\ stdout = <<NotFoundMessage>>
    /\ index_html # Absent

(* C2, as claimed: when gather meets a hand-written page without commit history, it
   prints a message about it and returns early, so that its output is not just
   the summary of the records and no page sorted after that one gets a record. *)
C2_PrintsAndReturnsEarly ==
    (Gathered /\ NoHistory # {})
      => /\ stdout # GatherPrinted(Tools)
         /\ \A skipped \in NoHistory : \A file \in RecordFiles : StrLess(file, skipped)

(* C2, amended: a hand-written page without commit history is skipped without a
   message and the run goes on: exactly the hand-written pages with a history get
   a record, gathered_links.json is written, and the output is the summary
   alone (the count and one line per record). *)
C2_SkipsFileAndGoesOn ==
    Gathered
      => /\ RecordFiles = (HtmlFiles \ GeneratedFiles) \ NoHistory
         /\ stdout = GatherPrinted(Tools)

\* gather skipped a-tool.html, which has no history, and went on to b_tool.html
C2_Witness ==
    /\ Gathered
    /\ "a-tool.html" \in NoHistory
    /\ "b_tool.html" \in RecordFiles

\* the records of a gathered_links.json, the urls of each taken as the set of the
\* data model
RecordSet(file) ==
    {[file.tools[i] EXCEPT !.urls = Range(@)] : i \in DOMAIN file.tools}

(* C3: the pipeline has no feedback. No run of gather writes a record for
   index.html, colophon.html or by-month.html, whatever the builders wrote and the
   user committed before it; and a run of gather over an existing
   gathered_links.json, the hand-written pages and their history being the same,
   writes the same set of records. *)
C3_NoFeedback ==
    [][(last_run' = "gather_links" /\ gathered_links' # Absent)
         => /\ \A i \in DOMAIN gathered_links'.tools :
                  gathered_links'.tools[i].file \notin GeneratedFiles
            /\ gathered_links # Absent
                  => RecordSet(gathered_links') = RecordSet(gathered_links)]_vars

\* gather ran with all three generated pages in the directory, each with a commit
C3_Witness ==
    /\ Gathered
    /\ index_html # Absent /\ git_log["index.html"] # <<>>
    /\ colophon_html # Absent /\ git_log["colophon.html"] # <<>>
    /\ "by-month.html" \in DOMAIN html_pages /\ git_log["by-month.html"] # <<>>
    /\ Tools # <<>>

(* C4: the urls of every record of gathered_links.json hold no URL twice, and
   hold a URL exactly when extract_urls returns it for the message of one of the
   record's commits. *)
C4_UrlsAreTheExtractedSet ==
    gathered_links # Absent
      => \A i \in DOMAIN Tools :
            /\ NoDuplicate(Tools[i].urls)
            /\ Range(Tools[i].urls) =
                 UNION {Range(extract_urls(Tools[i].commits[k].message)) :
                          k \in DOMAIN Tools[i].commits}

\* a record whose commits name three URLs, one of them twice
C4_Witness ==
    /\ gathered_links # Absent
    /\ \E i \in DOMAIN Tools :
          /\ Len(all_urls(Tools[i].commits)) = 3
          /\ Len(Tools[i].urls) = 2

(* C5, as claimed: gathered_links.json lists the record whose updated timestamp
   denotes the later instant first, also when the timestamps carry different
   offsets. *)
C5_SortedByInstant ==
    gathered_links # Absent
      => \A i, j \in DOMAIN Tools :
            i < j => Instant(Tools[i].updated) >= Instant(Tools[j].updated)

\* how often p occurs in s
Count(s, p) == Cardinality({i \in 1..(Len(s) - Len(p) + 1) : StartsWithAt(s, i, p)})

\* the URLs of a message: each from its scheme up to white space, an angle bracket
\* or a quote
MessageUrls(message) == FindAllUrls(message, 1, Whitespace \cup {"<", ">", "\"", "'"})

\* the anchor whose href and text are both url
Anchor(url) ==
    "<a href=\"" \o url \o "\" target=\"_blank\" rel=\"noopener\">" \o url \o "</a>"

(* C6, as claimed: format_commit_message wraps every URL of the message in one
   anchor whose href and text are both the complete URL (as it is, or with its
   '&' escaped for HTML), and makes no other such anchor, also when the URL holds
   an '&' or a '#' followed by digits. *)
C6_EveryUrlIsOneAnchor ==
    pc = "return"
      => /\ \A k \in DOMAIN MessageUrls(arg) :
               \/ Contains(ret, Anchor(escape(MessageUrls(arg)[k])))
               \/ Contains(ret, Anchor(MessageUrls(arg)[k]))
         /\ Count(ret, " target=\"_blank\"") = Len(MessageUrls(arg))

(* C7: every string extract_urls returns starts with http:// or https://, holds
   no white space, quote, angle bracket, parenthesis, square bracket, brace or
   NUL, and does not end with one of . , ; : ! ? ; there is one string for each
   match of the pattern, in the order of the matches, each being its match
   without the punctuation at its end. *)
C7_ExtractedUrlsAreClean ==
    pc = "return"
      => LET matches == FindAllUrls(arg, 1, UrlExcluded)
         IN  /\ Len(ret) = Len(matches)
             /\ \A k \in DOMAIN ret :
                   /\ StartsWithAt(ret[k], 1, "http://") \/ StartsWithAt(ret[k], 1, "https://")
                   /\ \A i \in 1..Len(ret[k]) : Char(ret[k], i) \notin UrlExcluded
                   /\ Char(ret[k], Len(ret[k])) \notin TrailingPunctuation
                   /\ StartsWithAt(matches[k], 1, ret[k])
                   /\ \A i \in (Len(ret[k]) + 1)..Len(matches[k]) :
                         Char(matches[k], i) \in TrailingPunctuation

\* two URLs returned in order, the first without the full stop that followed it
C7_Witness ==
    /\ pc = "return"
    /\ arg = "http://a.io. https://b.io/x"
    /\ ret = <<"http://a.io", "https://b.io/x">>

(* C8: every record of gathered_links.json has at least one commit, its commits
   are those git log lists for its file, in that order, its updated is the date
   of the first of them and its created the date of the last; a page with no
   commits has no record. *)
C8_CommitsAndDates ==
    gathered_links # Absent
      => /\ \A i \in DOMAIN Tools :
               LET commits == Tools[i].commits
                   log     == git_log[Tools[i].file]
               IN  /\ commits # <<>>
                   /\ Len(commits) = Len(log)
                   /\ \A k \in DOMAIN commits :
                         commits[k].hash = log[k].hash /\ commits[k].date = log[k].date
                   /\ Tools[i].updated = commits[1].date
                   /\ Tools[i].created = commits[Len(commits)].date
         /\ \A name \in HtmlFiles : git_log[name] = <<>> => name \notin RecordFiles

\* a record with two commits of different dates, beside a page with no commits
C8_Witness ==
    /\ gathered_links # Absent
    /\ \E i \in DOMAIN Tools :
          Len(Tools[i].commits) = 2 /\ Tools[i].created # Tools[i].updated
    /\ \E name \in DOMAIN html_pages : git_log[name] = <<>>

(* C9: for commits whose hash is a hexadecimal object name, whose date is an ISO
   timestamp and whose message holds no NUL, printed as hash|date|message with a
   NUL (and git's line feed, or nothing) after each, get_file_commit_details
   returns one record per commit, in the same order, with the same hash and date
   and the message stripped of white space at both ends, also when the message
   holds '|' or is empty. *)
C9_LogRoundTrip ==
    pc = "return"
      => /\ Len(ret) = Len(arg.commits)
         /\ \A k \in DOMAIN ret :
               ret[k] = [hash    |-> arg.commits[k].hash,
                         date    |-> arg.commits[k].date,
                         message |-> strip(arg.commits[k].message)]

\* a log of two commits, one message with '|' in it and one empty
C9_Witness ==
    /\ pc = "return"
    /\ Len(ret) = 2
    /\ ret[1].message = "a | b|c"
    /\ ret[2].message = ""
    /\ arg.terminator = "\n"

\* a builder ran last and wrote its page from the gathered_links.json still there
Built(script) ==
    /\ last_run = script
    /\ stdout # <<NotFoundMessage>>
    /\ gathered_links # Absent

(* C10: a page a builder wrote holds one card (index.html) or one section
   (colophon.html) per record of gathered_links.json, in the order of the list;
   its header states the number of records, with the noun 'tool' exactly when
   that number is 1; each section of colophon.html states the number of its
   tool's commits, with the noun 'commit' exactly when that number is 1. *)
C10_PagesListEveryTool ==
    /\ Built("build_index")
         => /\ Len(index_html.cards) = Len(Tools)
            /\ \A i \in DOMAIN Tools : index_html.cards[i].href = Tools[i].slug \o ".html"
            /\ index_html.count = ToString(Len(Tools))
            /\ index_html.noun = (IF Len(Tools) = 1 THEN "tool" ELSE "tools")
    /\ Built("build_colophon")
         => /\ Len(colophon_html.sections) = Len(Tools)
            /\ colophon_html.count = ToString(Len(Tools))
            /\ colophon_html.noun = (IF Len(Tools) = 1 THEN "tool" ELSE "tools")
            /\ \A i \in DOMAIN Tools :
                  LET section == colophon_html.sections[i]
                      n       == Len(Tools[i].commits)
                  IN  /\ section.id = Tools[i].slug
                      /\ Len(section.commits) = n
                      /\ section.count = ToString(n)
                      /\ section.noun = (IF n = 1 THEN "commit" ELSE "commits")

\* colophon.html written for two tools, one of one commit and one of two, with
\* index.html written before it
C10_Witness ==
    /\ Built("build_colophon")
    /\ index_html # Absent /\ Len(index_html.cards) = 2
    /\ \E i, j \in DOMAIN Tools :
          Len(Tools[i].commits) = 1 /\ Len(Tools[j].commits) = 2

(* C11, as claimed: gather is deterministic. A run of gather that finds the
   gathered_links.json of the run before it, the HTML files and the commit
   history being the same, writes the same file again: the same records in the
   same order, each with its urls in the same order. *)
C11_GatherIsDeterministic ==
    [][(/\ last_run = "gather_links" /\ gathered_links # Absent
        /\ last_run' = "gather_links" /\ gathered_links' # Absent
        /\ html_pages' = html_pages /\ git_log' = git_log)
         => gathered_links' = gathered_links]_vars

====
